---- MODULE Spec2Model ----
(***************************************************************************)
(* A model of SMTmv: the SMT-LIB to Isabelle/HOL converter (convert.rs),   *)
(* the validation orchestrator (validation.rs) and the two lemma checkers  *)
(* (checker.rs).                                                           *)
(*                                                                         *)
(* Rust values are modelled as follows.                                    *)
(*   Option<T>        <<>> for None, <<v>> for Some(v)                     *)
(*   Result<T, E>     a record with r \in {"ok", "err", "panic"}; "panic"  *)
(*                    is an unwinding panic (todo!(), unwrap(), panic!()), *)
(*                    which is neither an Ok nor an Err value              *)
(*   String (output)  a TLA+ string, built with \o as the code builds it   *)
(*   String (input)   a sequence of lexemes whose concatenation is the text *)
(***************************************************************************)
EXTENDS Integers, Sequences, FiniteSets, TLC

VARIABLES
    \* ---- validate() (validation.rs) ----
    pc,           \* position inside validate()
    smt_formula,  \* argument: the formula text
    smt_model,    \* argument / local: the model text (shadowed by its sanitized form)
    spec_file,    \* what theory_path/spec.json holds: "ok", "unreadable", "malformed"
    converter,    \* the local Converter, <<>> before it is built
    formula,      \* the converted formula (Vec<String>)
    model,        \* the converted model (Vec<String>)
    outcome,      \* what validate() gave its caller: r, v (verdict), err
    trace,        \* history: the calls validate() has made so far, in order
    proc,         \* what the environment did to the Isabelle batch run of this call, None before it
    checked,      \* what checker.check(&lemma) returned, None before it
    \* ---- ClientChecker (checker.rs) ----
    cpc,          \* lifecycle of the ClientChecker value and position inside check()
    session_id,   \* ClientChecker.session_id
    temp_dir,     \* ClientChecker.temp_dir
    result,       \* check()'s local result, between use_theories and purge_theories
    starts,       \* how many times start_server has been called
    wire,         \* history: the requests made of the Isabelle server, each with its response
    returned,     \* history: what each check() that returned gave its caller
    \* ---- converter functions on their own (convert.rs) ----
    tpc,          \* "input", then "done"
    t_conv,       \* the Converter the translations start from
    t_op,         \* the head operator of the application under translation
    t_args,       \* its argument list
    t_nary,       \* result of translating the n-ary application
    t_fold,       \* result of translating its left-deep binary expansion
    \* ---- string constants (convert.rs) ----
    upc,          \* "input", "picked", "unescaped", "done"
    u_s,          \* the content of a string literal, as a sequence of characters (code points)
    u_legacy,     \* the legacy argument of unicode_unescape
    u_res,        \* what unicode_unescape(u_s, u_legacy) gave
    u_const,      \* what convert_term gave for the string constant u_s
    \* ---- Lemma (lemma.rs) ----
    premises,     \* Lemma.premises
    conclusions,  \* Lemma.conclusions
    simps,        \* Lemma.simps
    calls,        \* history: the add_premise and add_conclusion calls made, in order
    \* ---- convert_identifier on its own (convert.rs) ----
    ipc,          \* "input", then "ready"
    i_conv,       \* the Converter
    i_before,     \* the Converter before the last convert_identifier
    i_qi,         \* the identifier last translated
    i_res         \* what the last convert_identifier returned

vvars == <<pc, smt_formula, smt_model, spec_file, converter, formula, model, outcome, trace, proc, checked>>
cvars == <<cpc, session_id, temp_dir, result, starts, wire, returned>>
tvars == <<tpc, t_conv, t_op, t_args, t_nary, t_fold>>
uvars == <<upc, u_s, u_legacy, u_res, u_const>>
lvars == <<premises, conclusions, simps, calls>>
ivars == <<ipc, i_conv, i_before, i_qi, i_res>>
vars == <<vvars, cvars, tvars, uvars, lvars, ivars>>

None == <<>>
Some(v) == <<v>>

(***************************************************************************)
(* The AST the parser (smt2parser, an external crate) hands to convert.rs. *)
(***************************************************************************)

\* QualIdentifier::Simple / ::Sorted over Identifier::Simple / ::Indexed
QualIdentifier(sym, sorted, indexed) == [sym |-> sym, sorted |-> sorted, indexed |-> indexed]
Simple(sym) == QualIdentifier(sym, FALSE, FALSE)
Sorted(sym) == QualIdentifier(sym, TRUE, FALSE)
Indexed(sym) == QualIdentifier(sym, FALSE, TRUE)

\* Term: k is the variant; qi the qualified identifier (identifiers and
\* applications); lit the literal (constants); a the sub-terms.
Term(k, qi, lit, a) == [k |-> k, qi |-> qi, lit |-> lit, a |-> a]
Id(sym) == Term("QualIdentifier", Simple(sym), "", <<>>)
SortedId(sym) == Term("QualIdentifier", Sorted(sym), "", <<>>)
IndexedId(sym) == Term("QualIdentifier", Indexed(sym), "", <<>>)
Numeral(n) == Term("Numeral", Simple(""), n, <<>>)
Decimal(d) == Term("Decimal", Simple(""), d, <<>>)
Hexadecimal(h) == Term("Hexadecimal", Simple(""), h, <<>>)
Application(qi, args) == Term("Application", qi, "", args)
App(sym, args) == Application(Simple(sym), args)
StringConst(chars) == Term("String", Simple(""), chars, <<>>)
Let(body) == Term("Let", Simple(""), "", <<body>>)
Forall(body) == Term("Forall", Simple(""), "", <<body>>)
Attributes(body) == Term("Attributes", Simple(""), "", <<body>>)

\* Command::Assert, Command::DefineFun, and any other command
AssertCmd(term) == [k |-> "Assert", name |-> "", term |-> term]
DefineFun(name, term) == [k |-> "DefineFun", name |-> name, term |-> term]
OtherCommand == [k |-> "Other", name |-> "", term |-> Numeral("0")]

(***************************************************************************)
(* convert.rs: Spec, SpecDef                                               *)
(***************************************************************************)

Spec_(mapsto, assoc, chainable) == [mapsto |-> mapsto, assoc |-> assoc, chainable |-> chainable]

is_left_assoc(spec) == spec.assoc # None /\ spec.assoc[1] = "left"

is_right_assoc(spec) == spec.assoc # None /\ spec.assoc[1] = "right"

\* The content of a well-formed spec.json: namespace -> operator -> Spec.
SpecTable ==
    [ns \in {"core", "strings"} |->
        IF ns = "core"
        THEN [op \in {"=", "and", "=>", "true", "+"} |->
                CASE op = "="    -> Spec_(Some("="), None, TRUE)
                  [] op = "and"  -> Spec_(Some("\\<and>"), Some("left"), FALSE)
                  [] op = "=>"   -> Spec_(Some("\\<longrightarrow>"), Some("right"), FALSE)
                  [] op = "true" -> Spec_(Some("True"), None, FALSE)
                  [] op = "+"    -> Spec_(Some("+"), Some("left"), FALSE)]
        ELSE [op \in {"str.len", "str.to_re", "str.in_re", "str.replace_re", "re.union"} |->
                CASE op = "str.len"        -> Spec_(Some("str_len"), None, FALSE)
                  [] op = "str.to_re"      -> Spec_(Some("str_to_re"), None, FALSE)
                  [] op = "str.in_re"      -> Spec_(Some("str_in_re"), None, FALSE)
                  [] op = "str.replace_re" -> Spec_(None, None, FALSE)
                  [] op = "re.union"       -> Spec_(None, Some("left"), FALSE)]]

\* A well-formed spec.json with the core namespace only.
CoreOnlyTable == [ns \in {"core"} |-> SpecTable["core"]]

\* A well-formed spec.json whose two namespaces both define =, with
\* different target names.
ConflictingTable ==
    [SpecTable EXCEPT !["strings"] =
        [op \in DOMAIN SpecTable["strings"] \cup {"="} |->
            IF op = "=" THEN Spec_(Some("str_eq"), None, TRUE) ELSE SpecTable["strings"][op]]]

\* The text of a spec file: whether serde_json can read it as a SpecDef,
\* and the specs it then holds.
SpecJson(specs) == [parses |-> TRUE, specs |-> specs]
MalformedJson == [parses |-> FALSE, specs |-> <<>>]

\* for (th, specs) in self.specs.iter(): the first namespace, in the map's
\* iteration order, that holds op.
RECURSIVE get_spec_from(_, _, _, _)
get_spec_from(specs, order, i, op) ==
    IF i > Len(order) THEN None
    ELSE IF op \in DOMAIN specs[order[i]] THEN Some(<<order[i], specs[order[i]][op]>>)
    ELSE get_spec_from(specs, order, i + 1, op)

get_spec(c, op) == get_spec_from(c.spec, c.order, 1, op)

(***************************************************************************)
(* convert.rs: Converter                                                   *)
(***************************************************************************)

\* Converter { spec, vars_used, vars_defined }; order is the iteration order
\* of the HashMap spec.specs, fixed for one Converter.
Converter(spec, order) == [spec |-> spec, order |-> order, vars_used |-> {}, vars_defined |-> {}]

\* Converter::new, given the iteration order the HashMap will have
new(spec_json, order) ==
    IF spec_json.parses
    THEN [r |-> "ok", c |-> Some(Converter(spec_json.specs, order)), err |-> ""]
    ELSE [r |-> "err", c |-> None, err |-> "Other"]

\* Result<String, Error> of a &mut self method, with self after the call.
Ok(c, text) == [r |-> "ok", text |-> text, err |-> "", c |-> c]
Err(c, e) == [r |-> "err", text |-> "", err |-> e, c |-> c]
Panic(c) == [r |-> "panic", text |-> "", err |-> "", c |-> c]

Unsupported(op) == "Unsupported(" \o op \o ")"

(***************************************************************************)
(* convert.rs: unicode_unescape.  A Rust string is the sequence of its     *)
(* characters, each character its code point.                              *)
(***************************************************************************)

Backslash == 92
LowerU == 117
LowerX == 120
OpenBrace == 123
CloseBrace == 125
PlusSign == 43
U32MaxDiv16 == 268435455
SurrogateFirst == 55296
SurrogateLast == 57343
MaxScalar == 1114111

\* to_digit(16) of a character, -1 when it is not a hexadecimal digit
HexDigit(ch) ==
    IF ch \in 48..57 THEN ch - 48
    ELSE IF ch \in 97..102 THEN ch - 87
    ELSE IF ch \in 65..70 THEN ch - 55
    ELSE -1

\* u32::from_str_radix(&code, 16): None for an Err (empty, a character
\* that is no digit, a value over u32::MAX); one leading + is accepted.
\* value * 16 + digit exceeds u32::MAX exactly when value exceeds u32::MAX / 16.
RECURSIVE from_str_radix_digits(_, _, _)
from_str_radix_digits(code, i, value) ==
    IF i > Len(code) THEN Some(value)
    ELSE IF HexDigit(code[i]) < 0 THEN None
    ELSE IF value > U32MaxDiv16 THEN None
    ELSE from_str_radix_digits(code, i + 1, value * 16 + HexDigit(code[i]))

from_str_radix(code) ==
    IF code = <<>> THEN None
    ELSE IF code[1] = PlusSign
    THEN IF Len(code) = 1 THEN None ELSE from_str_radix_digits(code, 2, 0)
    ELSE from_str_radix_digits(code, 1, 0)

\* char::from_u32(code)
from_u32(code) ==
    IF code \in SurrogateFirst..SurrogateLast \/ code > MaxScalar THEN None ELSE Some(code)

\* Result<String, Error> of unicode_unescape
UOk(res) == [r |-> "ok", chars |-> res, err |-> ""]
UErr(e) == [r |-> "err", chars |-> <<>>, err |-> e]
UPanic == [r |-> "panic", chars |-> <<>>, err |-> ""]

\* the position of the first } at or after i, Len(s) + 1 when there is none
RECURSIVE find_close(_, _)
find_close(s, i) ==
    IF i > Len(s) THEN i
    ELSE IF s[i] = CloseBrace THEN i
    ELSE find_close(s, i + 1)

\* while let Some(c) = chars.next() { ... }: i is the position of the next
\* character of the iterator, res the string built so far.
RECURSIVE unescape_from(_, _, _, _)
\* the character an escape's digits stand for is pushed and the loop goes on at next
push_code(s, code, next, res, legacy) ==
    LET parsed == from_str_radix(code) IN
    IF parsed = None THEN UPanic
    ELSE IF from_u32(parsed[1]) = None THEN UPanic
    ELSE unescape_from(s, next, Append(res, parsed[1]), legacy)

unescape_from(s, i, res, legacy) ==
    IF i > Len(s) THEN UOk(res)
    ELSE IF s[i] # Backslash THEN unescape_from(s, i + 1, Append(res, s[i]), legacy)
    ELSE IF i + 1 > Len(s) THEN UErr("Other")
    ELSE IF s[i + 1] = LowerU
    THEN IF i + 2 > Len(s) THEN UErr("Other")
         ELSE IF s[i + 2] = OpenBrace
         THEN LET close == find_close(s, i + 3) IN
              push_code(s, SubSeq(s, i + 3, close - 1), close + 1, res, legacy)
         ELSE IF i + 6 > Len(s) THEN UPanic
         ELSE push_code(s, SubSeq(s, i + 2, i + 6), i + 7, res, legacy)
    ELSE IF s[i + 1] = LowerX /\ legacy
    THEN IF i + 3 > Len(s) THEN UPanic
         ELSE push_code(s, SubSeq(s, i + 2, i + 3), i + 4, res, legacy)
    ELSE unescape_from(s, i + 2, Append(res, s[i + 1]), legacy)

unicode_unescape(s, legacy) == unescape_from(s, 1, <<>>, legacy)

\* char::len_utf8
len_utf8(ch) == IF ch < 128 THEN 1 ELSE IF ch < 2048 THEN 2 ELSE IF ch < 65536 THEN 3 ELSE 4

\* String::len: the length in bytes
RECURSIVE len(_)
len(str) == IF str = <<>> THEN 0 ELSE len_utf8(Head(str)) + len(Tail(str))

\* for (i, c) in s.chars().enumerate() { ... }, i counting from 0
RECURSIVE as_char_list_from(_, _, _)
as_char_list_from(str, i, as_char_list) ==
    IF i >= Len(str) THEN as_char_list
    ELSE IF i < len(str) - 1
    THEN as_char_list_from(str, i + 1, as_char_list \o ToString(str[i + 1]) \o ",")
    ELSE as_char_list_from(str, i + 1, as_char_list \o ToString(str[i + 1]))

identifier_name(qi) == IF qi.indexed THEN None ELSE Some(qi.sym)

convert_constant(c, t) ==
    CASE t.k = "Numeral" -> Ok(c, "(" \o t.lit \o "::int)")
      [] t.k = "Decimal" -> Ok(c, t.lit)
      [] t.k = "String" ->
            LET render(str) == IF str.r = "err" THEN Err(c, str.err)
                               ELSE IF str.r = "panic" THEN Panic(c)
                               ELSE Ok(c, as_char_list_from(str.chars, 0, "[") \o "]") IN
            render(unicode_unescape(t.lit, TRUE))
      [] OTHER -> Panic(c)

\* convert_identifier with vars_used overwritten instead of extended
convert_identifier_resets_used(c, qi) ==
    LET name == identifier_name(qi) IN
    IF name = None THEN Panic(c)
    ELSE LET op == name[1]
             m == get_spec(c, op) IN
         IF m # None
         THEN IF m[1][2].mapsto # None THEN Ok(c, m[1][2].mapsto[1]) ELSE Err(c, Unsupported(op))
         ELSE Ok([c EXCEPT !.vars_used = {op}], op)

\* convert_identifier with the name recorded as used before the lookup
convert_identifier_marks_all_used(c, qi) ==
    LET name == identifier_name(qi) IN
    IF name = None THEN Panic(c)
    ELSE LET op == name[1]
             m == get_spec(c, op)
             c1 == [c EXCEPT !.vars_used = @ \cup {op}] IN
         IF m # None
         THEN IF m[1][2].mapsto # None THEN Ok(c1, m[1][2].mapsto[1]) ELSE Err(c1, Unsupported(op))
         ELSE Ok(c1, op)

convert_identifier(c, qi) ==
    LET name == identifier_name(qi) IN
    IF name = None THEN Panic(c)
    ELSE LET op == name[1]
             m == get_spec(c, op) IN
         IF m # None
         THEN IF m[1][2].mapsto # None THEN Ok(c, m[1][2].mapsto[1]) ELSE Err(c, Unsupported(op))
         ELSE Ok([c EXCEPT !.vars_used = @ \cup {op}], op)

\* for arg in args.iter().skip(2) { term = Application(identifier, [term, arg]) }
RECURSIVE unroll_loop(_, _, _, _)
unroll_loop(qi, args, i, term) ==
    IF i > Len(args) THEN term
    ELSE unroll_loop(qi, args, i + 1, Application(qi, <<term, args[i]>>))

unroll_assoc_right_fold(qi, args) ==
    IF Len(args) >= 2
    THEN Application(qi, <<args[1], Application(qi, SubSeq(args, 2, Len(args)))>>)
    ELSE Application(qi, args)

unroll_assoc_left(qi, args) ==
    IF Len(args) >= 2
    THEN unroll_loop(qi, args, 3, Application(qi, <<args[1], args[2]>>))
    ELSE Application(qi, args)

\* unimplemented!(): the call panics and gives no term (None); Some(term)
\* is a term returned.
unroll_assoc_right_as_left(qi, args) == Some(unroll_assoc_left(qi, args))

unroll_assoc_right(qi, args) == None

RECURSIVE convert_term(_, _)
RECURSIVE convert_application(_, _, _)
RECURSIVE convert_args(_, _, _, _)

\* for t in args { s += " "; s += &self.convert_term(t)?; }
convert_args(c, args, i, s) ==
    IF i > Len(args) THEN Ok(c, s)
    ELSE LET push(r) == IF r.r # "ok" THEN r
                        ELSE convert_args(r.c, args, i + 1, s \o " " \o r.text) IN
         push(convert_term(c, args[i]))

convert_application(c, qi, args) ==
    LET name == identifier_name(qi) IN
    IF name = None THEN Panic(c)
    ELSE LET op == name[1]
             m == get_spec(c, op) IN
         IF m = None THEN Err(c, Unsupported(op))
         ELSE LET spec == m[1][2] IN
              IF is_left_assoc(spec) /\ Len(args) > 2
              THEN convert_term(c, unroll_assoc_left(qi, args))
              ELSE IF is_right_assoc(spec) /\ Len(args) > 2
              THEN LET unrolled == unroll_assoc_right(qi, args) IN
                   IF unrolled = None THEN Panic(c) ELSE convert_term(c, unrolled[1])
              ELSE IF spec.mapsto = None THEN Err(c, Unsupported(op))
              ELSE LET s == IF Len(args) <= 1
                            THEN "(" \o spec.mapsto[1] \o " "
                            ELSE "((" \o spec.mapsto[1] \o ") "
                       close(r) == IF r.r # "ok" THEN r ELSE Ok(r.c, r.text \o ")") IN
                   close(convert_args(c, args, 1, s))

convert_term(c, t) ==
    CASE t.k \in {"Numeral", "Decimal", "Hexadecimal", "String"} -> convert_constant(c, t)
      [] t.k = "QualIdentifier" -> convert_identifier(c, t.qi)
      [] t.k = "Application" -> convert_application(c, t.qi, t.a)
      [] OTHER -> Panic(c)

convert_fun_defines_no_insert(c, name, term) ==
    LET format(r) == IF r.r # "ok" THEN r ELSE Ok(r.c, name \o " = " \o r.text) IN
    format(convert_term(c, term))

convert_fun_defines(c, name, term) ==
    LET c1 == [c EXCEPT !.vars_defined = @ \cup {name}]
        format(r) == IF r.r # "ok" THEN r ELSE Ok(r.c, name \o " = " \o r.text) IN
    format(convert_term(c1, term))

(***************************************************************************)
(* Input text.  A text is a sequence of lexemes; its characters are the    *)
(* concatenation of the lexemes.  A command lexeme is the text of one      *)
(* balanced SMT-LIB command.                                               *)
(***************************************************************************)

Whitespace == {" ", "\n"}

\* What the parser (smt2parser::CommandStream, an external crate) returns
\* for the text of each command of the corpus.
CommandOf ==
    [lex \in {"(assert (= x 1))", "(assert (= y 1))", "(assert (and (= x 1) (= y 2) true))",
              "(assert (=> (= x 1) (= x 1) (= x 1)))", "(assert (foo x))", "(declare-fun x () Int)",
              "(assert (str.in.re x (str.to.re y)))", "(assert (str.in_re x (str.to_re y)))",
              "(define-fun x () Int 1)", "(define-fun y () Int 2)", "(define-fun x () Int y)",
              "(define-fun x () Int #x01)", "(define-fun x () Int (- 1))",
              "(assert (let ((a 1)) (= x a)))", "(assert (and (= x 1) (forall ((a Int)) (= a 1))))",
              "(define-fun y () Int (! 2 :named n))"} |->
        CASE lex = "(assert (= x 1))" -> AssertCmd(App("=", <<Id("x"), Numeral("1")>>))
          [] lex = "(assert (= y 1))" -> AssertCmd(App("=", <<Id("y"), Numeral("1")>>))
          [] lex = "(assert (and (= x 1) (= y 2) true))" ->
                AssertCmd(App("and", <<App("=", <<Id("x"), Numeral("1")>>),
                                       App("=", <<Id("y"), Numeral("2")>>), Id("true")>>))
          [] lex = "(assert (=> (= x 1) (= x 1) (= x 1)))" ->
                AssertCmd(App("=>", <<App("=", <<Id("x"), Numeral("1")>>),
                                      App("=", <<Id("x"), Numeral("1")>>),
                                      App("=", <<Id("x"), Numeral("1")>>)>>))
          [] lex = "(assert (foo x))" -> AssertCmd(App("foo", <<Id("x")>>))
          [] lex = "(declare-fun x () Int)" -> OtherCommand
          [] lex = "(assert (str.in.re x (str.to.re y)))" ->
                AssertCmd(App("str.in.re", <<Id("x"), App("str.to.re", <<Id("y")>>)>>))
          [] lex = "(assert (str.in_re x (str.to_re y)))" ->
                AssertCmd(App("str.in_re", <<Id("x"), App("str.to_re", <<Id("y")>>)>>))
          [] lex = "(define-fun x () Int 1)" -> DefineFun("x", Numeral("1"))
          [] lex = "(define-fun y () Int 2)" -> DefineFun("y", Numeral("2"))
          [] lex = "(define-fun x () Int y)" -> DefineFun("x", Id("y"))
          [] lex = "(define-fun x () Int #x01)" -> DefineFun("x", Hexadecimal("#x01"))
          [] lex = "(define-fun x () Int (- 1))" -> DefineFun("x", App("-", <<Numeral("1")>>))
          [] lex = "(assert (let ((a 1)) (= x a)))" -> AssertCmd(Let(App("=", <<Id("x"), Id("a")>>)))
          [] lex = "(assert (and (= x 1) (forall ((a Int)) (= a 1))))" ->
                AssertCmd(App("and", <<App("=", <<Id("x"), Numeral("1")>>),
                                       Forall(App("=", <<Id("a"), Numeral("1")>>))>>))
          [] lex = "(define-fun y () Int (! 2 :named n))" -> DefineFun("y", Attributes(Numeral("2")))]

\* stream.collect::<Result<Vec<_>, _>>(): the commands of the text, or a
\* parse error when something other than commands and white space is in it.
RECURSIVE parse_from(_, _, _)
parse_from(input, i, cmds) ==
    IF i > Len(input) THEN [r |-> "ok", cmds |-> cmds]
    ELSE IF input[i] \in Whitespace THEN parse_from(input, i + 1, cmds)
    ELSE IF input[i] \in DOMAIN CommandOf THEN parse_from(input, i + 1, Append(cmds, CommandOf[input[i]]))
    ELSE [r |-> "err", cmds |-> <<>>]

parse(input) == parse_from(input, 1, <<>>)

\* input.replace("str.to.re", "str.to_re").replace("str.in.re", "str.in_re")
replace25(input) ==
    [i \in 1..Len(input) |->
        IF input[i] = "(assert (str.in.re x (str.to.re y)))"
        THEN "(assert (str.in_re x (str.to_re y)))"
        ELSE input[i]]

\* Result<Vec<String>, Error> of Converter::convert, with self after the call.
OkVec(c, out) == [r |-> "ok", out |-> out, err |-> "", c |-> c]
ErrVec(c, e) == [r |-> "err", out |-> <<>>, err |-> e, c |-> c]
PanicVec(c) == [r |-> "panic", out |-> <<>>, err |-> "", c |-> c]

\* for c in &commands { ... converted.push(conv) }
RECURSIVE convert_commands(_, _, _, _)
convert_commands(c, commands, i, converted) ==
    IF i > Len(commands) THEN OkVec(c, converted)
    ELSE LET cmd == commands[i]
             push(r) ==
                 IF r.r = "err" THEN ErrVec(r.c, r.err)
                 ELSE IF r.r = "panic" THEN PanicVec(r.c)
                 ELSE convert_commands(r.c, commands, i + 1,
                                       IF cmd.k \in {"Assert", "DefineFun"}
                                       THEN Append(converted, r.text) ELSE converted) IN
         push(CASE cmd.k = "Assert" -> convert_term(c, cmd.term)
                [] cmd.k = "DefineFun" -> convert_fun_defines(c, cmd.name, cmd.term)
                [] OTHER -> Ok(c, ""))

convert(c, input) ==
    LET translate(p) == IF p.r = "err" THEN ErrVec(c, "ParseError")
                        ELSE convert_commands(c, p.cmds, 1, <<>>) IN
    translate(parse(replace25(input)))

get_vars_used(c) == c.vars_used

get_vars_defined(c) == c.vars_defined

(***************************************************************************)
(* checker.rs: BatchChecker                                                *)
(***************************************************************************)

\* What the environment does to one BatchChecker::check: io is whether the
\* temporary directory and Validation.thy could be made; runtime whether
\* the tokio runtime could be built; spawn whether process::batch_process
\* returned Ok(output); decodes whether
\* output.stdout and output.stderr are UTF-8; success is
\* output.status.success(); marker and sub are whether stdout contains
\* "Failed to finish proof" and "1. False".
ProcOutcomes ==
    { p \in [io : BOOLEAN, runtime : BOOLEAN, spawn : BOOLEAN, decodes : BOOLEAN,
             success : BOOLEAN, marker : BOOLEAN, sub : BOOLEAN] :
        /\ ~p.io => ~p.runtime
        /\ ~p.runtime => ~p.spawn
        /\ ~p.spawn => ~p.decodes /\ ~p.success
        /\ ~p.decodes => ~p.marker /\ ~p.sub }

\* Result<CheckResult, Error>
CheckOk(res) == [r |-> "ok", res |-> res, err |-> ""]
CheckErr(e) == [r |-> "err", res |-> "", err |-> e]
CheckPanic == [r |-> "panic", res |-> "", err |-> ""]

run_isabelle_sub_first(p) ==
    IF ~p.runtime THEN CheckPanic
    ELSE IF ~p.spawn THEN CheckErr("IsabelleError")
    ELSE IF ~p.decodes THEN CheckPanic
    ELSE IF p.success THEN CheckOk("OK")
    ELSE IF p.sub THEN CheckOk("FailedInvalid")
    ELSE IF p.marker THEN CheckOk("FailedUnknown")
    ELSE CheckErr("IsabelleError")

run_isabelle(p) ==
    IF ~p.runtime THEN CheckPanic
    ELSE IF ~p.spawn THEN CheckErr("IsabelleError")
    ELSE IF ~p.decodes THEN CheckPanic
    ELSE IF p.success THEN CheckOk("OK")
    ELSE IF p.marker
         THEN IF p.sub THEN CheckOk("FailedInvalid") ELSE CheckOk("FailedUnknown")
    ELSE CheckErr("IsabelleError")

BatchChecker_check(p) == IF ~p.io THEN CheckPanic ELSE run_isabelle(p)

(***************************************************************************)
(* validation.rs                                                           *)
(***************************************************************************)

RECURSIVE trim_start(_)
trim_start(text) ==
    IF text # <<>> /\ Head(text) \in Whitespace THEN trim_start(Tail(text)) ELSE text

RECURSIVE trim_end(_)
trim_end(text) ==
    IF text # <<>> /\ text[Len(text)] \in Whitespace
    THEN trim_end(SubSeq(text, 1, Len(text) - 1)) ELSE text

trim(text) == trim_end(trim_start(text))

starts_with(text, prefix) ==
    Len(text) >= Len(prefix) /\ SubSeq(text, 1, Len(prefix)) = prefix

strip_prefix(text, prefix) ==
    IF starts_with(text, prefix) THEN Some(SubSeq(text, Len(prefix) + 1, Len(text))) ELSE None

strip_suffix(text, suffix) ==
    IF Len(text) >= Len(suffix) /\ SubSeq(text, Len(text) - Len(suffix) + 1, Len(text)) = suffix
    THEN Some(SubSeq(text, 1, Len(text) - Len(suffix))) ELSE None

\* validation.rs's sanitize_model: r is "panic" when an unwrap() fails.
sanitize_model(raw) ==
    LET m0 == trim(raw)
        unwrapped ==
            IF starts_with(m0, <<"sat", "\n", "(">>)
            THEN LET a == trim(strip_prefix(m0, <<"sat">>)[1])
                     b == strip_prefix(a, <<"(">>)[1]
                     d == strip_suffix(b, <<")">>) IN
                 IF d = None THEN None ELSE Some(trim(d[1]))
            ELSE Some(m0) IN
    IF unwrapped = None THEN [r |-> "panic", text |-> <<>>]
    ELSE LET m1 == unwrapped[1] IN
         IF starts_with(m1, <<"model">>)
         THEN [r |-> "ok", text |-> trim(strip_prefix(m1, <<"model">>)[1])]
         ELSE [r |-> "ok", text |-> m1]

\* Converter::from_spec_file then Converter::new, given the HashMap's iteration order
from_spec_file(file, order) ==
    IF file = "unreadable" THEN [r |-> "err", c |-> None, err |-> "Other"]
    ELSE new(IF file = "ok" THEN SpecJson(SpecTable) ELSE MalformedJson, order)

NamespaceOrders == {<<"core", "strings">>, <<"strings", "core">>}

undefined_vars_swapped(c) == get_vars_defined(c) \ get_vars_used(c)

undefined_vars(c) == get_vars_used(c) \ get_vars_defined(c)

validation_result_unknown_as_invalid(res) ==
    CASE res = "OK" -> "Valid"
      [] res = "FailedUnknown" -> "Invalid"
      [] res = "FailedInvalid" -> "Invalid"

validation_result(res) ==
    CASE res = "OK" -> "Valid"
      [] res = "FailedUnknown" -> "Unknown"
      [] res = "FailedInvalid" -> "Invalid"

\* Result<ValidationResult, Error> as the caller of validate() sees it
NoOutcome == [r |-> "none", v |-> "", err |-> ""]
Returned(v) == [r |-> "ok", v |-> v, err |-> ""]
Failed(e) == [r |-> "err", v |-> "", err |-> e]
Panicked == [r |-> "panic", v |-> "", err |-> ""]

\* The ? operator of validate() applied to a result: an Err is returned to
\* the caller at once and a panic unwinds through validate(); NoOutcome
\* means validate() goes on.
question_mark(r) ==
    CASE r.r = "err" -> Failed(r.err)
      [] r.r = "panic" -> Panicked
      [] OTHER -> NoOutcome

\* The inputs validate() is called with.
Formulas ==
    { <<"(assert (= x 1))">>,
      <<"(declare-fun x () Int)", "\n", "(assert (= x 1))">>,
      <<"(assert (= y 1))">>,
      <<"(assert (and (= x 1) (= y 2) true))">>,
      <<"(assert (str.in.re x (str.to.re y)))">>,
      <<"(assert (=> (= x 1) (= x 1) (= x 1)))">>,
      <<"(assert (foo x))">>,
      <<"(assert (let ((a 1)) (= x a)))">>,
      <<"(assert (and (= x 1) (forall ((a Int)) (= a 1))))">>,
      <<"(assert (= x 1))", "(">> }

Models ==
    { <<"sat", "\n", "(", "(define-fun x () Int 1)", ")">>,
      <<"sat", "\n", "(", "model", " ", "(define-fun x () Int 1)", ")", "\n">>,
      <<"sat", "\n", "(", "(define-fun x () Int 1)", "\n", "(define-fun y () Int 2)", ")">>,
      <<"sat", "\n", "(", "(define-fun x () Int y)", ")">>,
      <<"sat", "\n", "(", "(define-fun x () Int #x01)", ")">>,
      <<"sat", "\n", "(", "(define-fun x () Int (- 1))", ")">>,
      <<"sat", "\n", "(", "(define-fun x () Int 1)", "\n", "(define-fun y () Int (! 2 :named n))", ")">>,
      <<"sat", "\n", "(", "(define-fun x () Int 1)">>,
      <<"(define-fun x () Int 1)">>,
      <<"unsat">>,
      <<"unsat", "\n">> }

SpecFiles == {"ok", "unreadable", "malformed"}

VInit ==
    /\ pc = "idle"
    /\ smt_formula = <<>>
    /\ smt_model = <<>>
    /\ spec_file = "ok"
    /\ converter = None
    /\ formula = <<>>
    /\ model = <<>>
    /\ outcome = NoOutcome
    /\ trace = <<>>
    /\ proc = None
    /\ checked = None

\* A caller calls validate(smt_model, smt_formula, theory_path).
Call ==
    /\ pc = "idle"
    /\ \E f \in Formulas, m \in Models, sf \in SpecFiles :
        /\ smt_formula' = f
        /\ smt_model' = m
        /\ spec_file' = sf
    /\ pc' = "sanitize"
    /\ UNCHANGED <<converter, formula, model, outcome, trace, proc, checked>>
    /\ UNCHANGED <<cvars, tvars, uvars, lvars, ivars>>

\* let smt_model = sanitize_model(&smt_model);
Sanitize ==
    /\ pc = "sanitize"
    /\ LET s == sanitize_model(smt_model) IN
        /\ trace' = Append(trace, "sanitize_model")
        /\ IF s.r = "panic"
           THEN /\ outcome' = Panicked
                /\ pc' = "done"
                /\ UNCHANGED smt_model
           ELSE /\ smt_model' = s.text
                /\ pc' = "load"
                /\ UNCHANGED outcome
    /\ UNCHANGED <<smt_formula, spec_file, converter, formula, model, proc, checked>>
    /\ UNCHANGED <<cvars, tvars, uvars, lvars, ivars>>

\* let mut converter = convert::Converter::from_spec_file(&spec_path)?;
LoadSpec ==
    /\ pc = "load"
    /\ \E order \in NamespaceOrders :
        LET l == from_spec_file(spec_file, order) IN
        /\ trace' = Append(trace, "from_spec_file")
        /\ converter' = l.c
        /\ outcome' = question_mark(l)
        /\ pc' = IF question_mark(l) = NoOutcome THEN "formula" ELSE "done"
    /\ UNCHANGED <<smt_formula, smt_model, spec_file, formula, model, proc, checked>>
    /\ UNCHANGED <<cvars, tvars, uvars, lvars, ivars>>

\* let formula = converter.convert(smt_formula)?;
ConvertFormula ==
    /\ pc = "formula"
    /\ \E r \in {convert(converter[1], smt_formula)} :
        /\ trace' = Append(trace, "convert(formula)")
        /\ converter' = Some(r.c)
        /\ formula' = r.out
        /\ outcome' = question_mark(r)
        /\ pc' = IF question_mark(r) = NoOutcome THEN "model" ELSE "done"
    /\ UNCHANGED <<smt_formula, smt_model, spec_file, model, proc, checked>>
    /\ UNCHANGED <<cvars, tvars, uvars, lvars, ivars>>

\* let model = converter.convert(smt_model)?;
ConvertModel ==
    /\ pc = "model"
    /\ \E r \in {convert(converter[1], smt_model)} :
        /\ trace' = Append(trace, "convert(model)")
        /\ converter' = Some(r.c)
        /\ model' = r.out
        /\ outcome' = question_mark(r)
        /\ pc' = IF question_mark(r) = NoOutcome THEN "vars" ELSE "done"
    /\ UNCHANGED <<smt_formula, smt_model, spec_file, formula, proc, checked>>
    /\ UNCHANGED <<cvars, tvars, uvars, lvars, ivars>>

\* if !undefined_vars.is_empty() { return Ok(ValidationResult::Invalid); }
CheckVars ==
    /\ pc = "vars"
    /\ IF undefined_vars(converter[1]) # {}
       THEN /\ outcome' = Returned("Invalid")
            /\ pc' = "done"
       ELSE /\ pc' = "check"
            /\ UNCHANGED outcome
    /\ UNCHANGED <<smt_formula, smt_model, spec_file, converter, formula, model, trace, proc, checked>>
    /\ UNCHANGED <<cvars, tvars, uvars, lvars, ivars>>

\* match checker.check(&lemma)? { ... }
Check ==
    /\ pc = "check"
    /\ \E p \in ProcOutcomes :
        LET r == BatchChecker_check(p) IN
        /\ trace' = Append(trace, "check")
        /\ proc' = Some(p)
        /\ checked' = Some(r)
        /\ outcome' = IF r.r = "ok" THEN Returned(validation_result(r.res)) ELSE question_mark(r)
    /\ pc' = "done"
    /\ UNCHANGED <<smt_formula, smt_model, spec_file, converter, formula, model>>
    /\ UNCHANGED <<cvars, tvars, uvars, lvars, ivars>>

\* validate() has ended; its locals are dropped and the caller may call again.
Return ==
    /\ pc = "done"
    /\ pc' = "idle"
    /\ smt_formula' = <<>>
    /\ smt_model' = <<>>
    /\ spec_file' = "ok"
    /\ converter' = None
    /\ formula' = <<>>
    /\ model' = <<>>
    /\ outcome' = NoOutcome
    /\ trace' = <<>>
    /\ proc' = None
    /\ checked' = None
    /\ UNCHANGED <<cvars, tvars, uvars, lvars, ivars>>

(***************************************************************************)
(* checker.rs: ClientChecker                                               *)
(***************************************************************************)

MaxStarts == 2
MaxChecks == 2

\* One request made of the Isabelle server and how it ended: resp is
\* "io_err" when the call returned Err (a transport failure), else the
\* AsyncResult the server answered with.
Exchange(req, session, path, resp) == [req |-> req, session |-> session, path |-> path, resp |-> resp]

Uses == {i \in DOMAIN wire : wire[i].req = "use_theories"}

\* What can happen to start_server: run_server or Runtime::new fail, the
\* session_start exchange fails, or the server answers.
StartOutcomes == {"run_server_err", "runtime_err", "io_err", "error", "failed", "finished_no_tmp_dir", "finished"}
UseOutcomes == {"io_err", "error", "failed", "finished_ok", "finished_not_ok"}
PurgeOutcomes == {"io_err", "ok"}

\* start_server and start_session: Err leaves no ClientChecker, a panic unwinds.
start_server(o) ==
    CASE o \in {"run_server_err", "runtime_err", "io_err"} -> "err"
      [] o \in {"error", "failed", "finished_no_tmp_dir"} -> "panic"
      [] OTHER -> "ok"

\* match <the answer to use_theories> { Error, Failed, Finished } => CheckResult
use_theories_result(u) ==
    CASE u = "error" -> "FailedUnknown"
      [] u = "failed" -> "FailedUnknown"
      [] u = "finished_ok" -> "OK"
      [] u = "finished_not_ok" -> "FailedUnknown"

\* let result = match self.runtime.block_on(self.client.use_theories(&args)).unwrap() { ... };
\* where check() stands after it: unwrap() panics on a transport failure,
\* every answer leads on to the purge.
after_use_theories(u) ==
    IF u = "io_err" THEN [cpc |-> "panicked", result |-> ""]
    ELSE [cpc |-> "purging", result |-> use_theories_result(u)]

\* match self.runtime.block_on(self.client.purge_theories(args)) { Ok(_) => (), Err(e) => panic!(..) }
purge_theories_result_err_ignored(pu) == "ready"

purge_theories_result(pu) == IF pu = "ok" THEN "ready" ELSE "panicked"

CInit ==
    /\ cpc = "none"
    /\ session_id = ""
    /\ temp_dir = ""
    /\ result = ""
    /\ starts = 0
    /\ wire = <<>>
    /\ returned = <<>>

\* ClientChecker::start_server(theory_root), also after an earlier start failed.
StartServer ==
    /\ cpc \in {"none", "start_failed"}
    /\ starts < MaxStarts
    /\ starts' = starts + 1
    /\ \E o \in StartOutcomes :
        /\ wire' = IF o \in {"run_server_err", "runtime_err"} THEN wire
                   ELSE Append(wire, Exchange("session_start", "", "", o))
        /\ session_id' = IF o \in {"finished", "finished_no_tmp_dir"}
                         THEN "session" \o ToString(starts + 1) ELSE ""
        /\ temp_dir' = IF o = "finished" THEN "/tmp/isabelle" \o ToString(starts + 1) ELSE ""
        /\ cpc' = CASE start_server(o) = "ok" -> "ready"
                    [] start_server(o) = "err" -> "start_failed"
                    [] OTHER -> "panicked"
    /\ UNCHANGED <<result, returned>>
    /\ UNCHANGED <<vvars, tvars, uvars, lvars, ivars>>

\* check(): from its start to the answer to use_theories
CheckUseTheories ==
    /\ cpc = "ready"
    /\ Cardinality(Uses) < MaxChecks
    /\ \E file_written \in BOOLEAN, u \in UseOutcomes :
        IF ~file_written
        THEN /\ cpc' = "panicked"
             /\ UNCHANGED <<wire, result>>
        ELSE /\ wire' = Append(wire, Exchange("use_theories", session_id, temp_dir \o "/Validation", u))
             /\ cpc' = after_use_theories(u).cpc
             /\ result' = after_use_theories(u).result
    /\ UNCHANGED <<session_id, temp_dir, starts, returned>>
    /\ UNCHANGED <<vvars, tvars, uvars, lvars, ivars>>

\* check(): from purge_theories to its return
CheckPurgeTheories ==
    /\ cpc = "purging"
    /\ \E pu \in PurgeOutcomes :
        /\ wire' = Append(wire, Exchange("purge_theories", session_id, temp_dir \o "/Validation", pu))
        /\ cpc' = purge_theories_result(pu)
        /\ returned' = IF pu = "ok"
                       THEN Append(returned, [ret |-> CheckOk(result), on |-> wire[Len(wire)].resp])
                       ELSE returned
    /\ result' = ""
    /\ UNCHANGED <<session_id, temp_dir, starts>>
    /\ UNCHANGED <<vvars, tvars, uvars, lvars, ivars>>


(***************************************************************************)
(* convert.rs: the translation of one application, on its own              *)
(***************************************************************************)

MaxArgs == 4

\* A converter fresh from Converter::new.
FreshConverter == Converter(SpecTable, <<"core", "strings">>)

\* The spec files the converters are loaded from, and the iteration orders
\* a HashMap over their namespaces can have.
SpecJsons == {SpecJson(SpecTable), SpecJson(CoreOnlyTable), SpecJson(ConflictingTable)}

OrdersOf(specs) ==
    IF DOMAIN specs = {"core"} THEN {<<"core">>} ELSE {<<"core", "strings">>, <<"strings", "core">>}

LoadedConverters == UNION {{new(j, o).c[1] : o \in OrdersOf(j.specs)} : j \in SpecJsons}

\* Head operators: left-associative with and without a target name, not
\* associative, right-associative.
HeadOperators == {"+", "re.union", "=", "=>"}

\* Arguments: identifiers, a constant, an application that fails to
\* translate, and an n-ary left-associative application.
ArgumentTerms ==
    { Id("x"), SortedId("y"), Numeral("1"), App("foo", <<Id("z")>>),
      App("+", <<Id("u"), Id("v"), Numeral("2")>>) }

ArgumentLists == UNION {[1..n -> ArgumentTerms] : n \in 0..MaxArgs}

\* The left-deep binary expansion ((a op b) op c) op ... of an application.
RECURSIVE LeftDeep(_, _)
LeftDeep(qi, args) ==
    IF Len(args) <= 2 THEN Application(qi, args)
    ELSE Application(qi, <<LeftDeep(qi, SubSeq(args, 1, Len(args) - 1)), args[Len(args)]>>)

TInit ==
    /\ tpc = "input"
    /\ t_conv = FreshConverter
    /\ t_op = ""
    /\ t_args = <<>>
    /\ t_nary = Ok(FreshConverter, "")
    /\ t_fold = Ok(FreshConverter, "")

PickApplication ==
    /\ tpc = "input"
    /\ \E c \in LoadedConverters, op \in HeadOperators, args \in ArgumentLists :
        /\ t_conv' = c
        /\ t_op' = op
        /\ t_args' = args
    /\ tpc' = "picked"
    /\ UNCHANGED <<t_nary, t_fold>>
    /\ UNCHANGED <<vvars, cvars, uvars, lvars, ivars>>

\* converter.convert_term of the application as written
TranslateNary ==
    /\ tpc = "picked"
    /\ t_nary' = convert_term(t_conv, Application(Simple(t_op), t_args))
    /\ tpc' = "nary"
    /\ UNCHANGED <<t_conv, t_op, t_args, t_fold>>
    /\ UNCHANGED <<vvars, cvars, uvars, lvars, ivars>>

\* converter.convert_term of its left-deep binary expansion
TranslateFold ==
    /\ tpc = "nary"
    /\ t_fold' = convert_term(t_conv, LeftDeep(Simple(t_op), t_args))
    /\ tpc' = "done"
    /\ UNCHANGED <<t_conv, t_op, t_args, t_nary>>
    /\ UNCHANGED <<vvars, cvars, uvars, lvars, ivars>>

(***************************************************************************)
(* convert.rs: the translation of one string constant, on its own          *)
(***************************************************************************)

MaxSegments == 2

\* Pieces of string literals: plain characters (a, e-acute, U+1F600), the
\* escapes \u{21} \u{1F600} \u{} \u{12g} \u{41 \u{D800} \u1f600 \u0041
\* \u12 \u \x21 \x4 \xFG, a doubled backslash and a single one.
Segments ==
    { <<97>>, <<233>>, <<128512>>,
      <<92, 117, 123, 50, 49, 125>>,
      <<92, 117, 123, 49, 70, 54, 48, 48, 125>>,
      <<92, 117, 123, 125>>,
      <<92, 117, 123, 49, 50, 103, 125>>,
      <<92, 117, 123, 52, 49>>,
      <<92, 117, 123, 68, 56, 48, 48, 125>>,
      <<92, 117, 49, 102, 54, 48, 48>>,
      <<92, 117, 48, 48, 52, 49>>,
      <<92, 117, 49, 50>>,
      <<92, 117>>,
      <<92, 120, 50, 49>>,
      <<92, 120, 52>>,
      <<92, 120, 70, 71>>,
      <<92, 92>>,
      <<92>> }

RECURSIVE Concat(_)
Concat(segs) == IF segs = <<>> THEN <<>> ELSE Head(segs) \o Concat(Tail(segs))

\* The string literals translated: up to MaxSegments pieces in a row.
StringLiterals == UNION {{Concat(segs) : segs \in [1..n -> Segments]} : n \in 0..MaxSegments}

\* What the caller sees of a Result<String, Error>
Seen(res) == [r |-> res.r, text |-> res.text, err |-> res.err]

UInit ==
    /\ upc = "input"
    /\ u_s = <<>>
    /\ u_legacy = FALSE
    /\ u_res = UOk(<<>>)
    /\ u_const = Seen(Ok(FreshConverter, ""))

PickString ==
    /\ upc = "input"
    /\ \E str \in StringLiterals, legacy \in BOOLEAN :
        /\ u_s' = str
        /\ u_legacy' = legacy
    /\ upc' = "picked"
    /\ UNCHANGED <<u_res, u_const>>
    /\ UNCHANGED <<vvars, cvars, tvars, lvars, ivars>>

\* unicode_unescape(s, legacy)
Unescape ==
    /\ upc = "picked"
    /\ u_res' = unicode_unescape(u_s, u_legacy)
    /\ upc' = "unescaped"
    /\ UNCHANGED <<u_s, u_legacy, u_const>>
    /\ UNCHANGED <<vvars, cvars, tvars, lvars, ivars>>

\* converter.convert_term of Term::Constant(Constant::String(s))
RenderConstant ==
    /\ upc = "unescaped"
    /\ u_const' = Seen(convert_term(FreshConverter, StringConst(u_s)))
    /\ upc' = "done"
    /\ UNCHANGED <<u_s, u_legacy, u_res>>
    /\ UNCHANGED <<vvars, cvars, tvars, lvars, ivars>>

(***************************************************************************)
(* lemma.rs: Lemma.  A premise or conclusion is translated text, here the  *)
(* sequence of its tokens.                                                 *)
(***************************************************************************)

MaxCalls == 3

\* str::contains, for a needle that is one token
contains(text, needle) == \E i \in DOMAIN text : text[i] = needle

\* Translated texts: x = (1::int), ((str_substr) x 0 1) = y,
\* ((str_prefixof) x y), ((str_suffixof) x y), and a text with both
\* str_prefixof and str_substr.
Texts ==
    { <<"x", "=", "(1::int)">>,
      <<"(", "(", "str_substr", ")", "x", "0", "1", ")", "=", "y">>,
      <<"(", "(", "str_prefixof", ")", "x", "y", ")">>,
      <<"(", "(", "str_suffixof", ")", "x", "y", ")">>,
      <<"(", "(", "str_prefixof", ")", "x", "(", "(", "str_substr", ")", "y", "0", "1", ")", ")">> }

\* Lemma::new: the simps a lemma starts with
new_simps == {"assms", "eval_nat_numeral"}

\* the simps after add_conclusion(conclusion), with the prefix test dropped
add_conclusion_simps_suffix_only(s, conclusion) ==
    LET s1 == IF contains(conclusion, "str_substr") THEN s \cup {"fac_def"} ELSE s IN
    IF contains(conclusion, "str_suffixof")
    THEN s1 \cup {"is_prefix_def", "is_suffix_def"}
    ELSE s1

\* the simps after add_conclusion(conclusion)
add_conclusion_simps(s, conclusion) ==
    LET s1 == IF contains(conclusion, "str_substr") THEN s \cup {"fac_def"} ELSE s IN
    IF contains(conclusion, "str_prefixof") \/ contains(conclusion, "str_suffixof")
    THEN s1 \cup {"is_prefix_def", "is_suffix_def"}
    ELSE s1

\* Lemma::new(name)
LInit ==
    /\ premises = <<>>
    /\ conclusions = <<>>
    /\ simps = new_simps
    /\ calls = <<>>

\* lemma.add_premise(premise)
add_premise ==
    /\ Len(calls) < MaxCalls
    /\ \E premise \in Texts :
        /\ premises' = Append(premises, premise)
        /\ calls' = Append(calls, [fn |-> "add_premise", text |-> premise])
    /\ UNCHANGED <<conclusions, simps>>
    /\ UNCHANGED <<vvars, cvars, tvars, uvars, ivars>>

\* lemma.add_conclusion(conclusion)
add_conclusion ==
    /\ Len(calls) < MaxCalls
    /\ \E conclusion \in Texts :
        /\ simps' = add_conclusion_simps(simps, conclusion)
        /\ conclusions' = Append(conclusions, conclusion)
        /\ calls' = Append(calls, [fn |-> "add_conclusion", text |-> conclusion])
    /\ UNCHANGED premises
    /\ UNCHANGED <<vvars, cvars, tvars, uvars, ivars>>

(***************************************************************************)
(* convert.rs: convert_identifier, called again and again on one Converter *)
(***************************************************************************)

\* Identifiers: free variables, a name with a target, names with an entry
\* and no target, a name two namespaces of one table define; each plain,
\* sort-annotated and indexed.
IdentifierNames == {"x", "y", "true", "str.replace_re", "re.union", "="}

Identifiers == UNION {{Simple(n), Sorted(n), Indexed(n)} : n \in IdentifierNames}

IInit ==
    /\ ipc = "input"
    /\ i_conv = FreshConverter
    /\ i_before = FreshConverter
    /\ i_qi = Simple("")
    /\ i_res = Seen(Ok(FreshConverter, ""))

\* Converter::new
PickConverter ==
    /\ ipc = "input"
    /\ \E c \in LoadedConverters :
        /\ i_conv' = c
        /\ i_before' = c
    /\ ipc' = "ready"
    /\ UNCHANGED <<i_qi, i_res>>
    /\ UNCHANGED <<vvars, cvars, tvars, uvars, lvars>>

\* converter.convert_identifier(identifier)
TranslateIdentifier ==
    /\ ipc \in {"ready", "translated"}
    /\ \E qi \in Identifiers :
        LET r == convert_identifier(i_conv, qi) IN
        /\ i_qi' = qi
        /\ i_before' = i_conv
        /\ i_conv' = r.c
        /\ i_res' = Seen(r)
    /\ ipc' = "translated"
    /\ UNCHANGED <<vvars, cvars, tvars, uvars, lvars>>

Init == VInit /\ CInit /\ TInit /\ UInit /\ LInit /\ IInit

Next == Call \/ Sanitize \/ LoadSpec \/ ConvertFormula \/ ConvertModel \/ CheckVars \/ Check \/ Return

Spec == Init /\ [][Next]_vars

NextClient == StartServer \/ CheckUseTheories \/ CheckPurgeTheories

SpecClient == Init /\ [][NextClient]_vars

NextConvert == PickApplication \/ TranslateNary \/ TranslateFold

SpecConvert == Init /\ [][NextConvert]_vars

NextUnescape == PickString \/ Unescape \/ RenderConstant

SpecUnescape == Init /\ [][NextUnescape]_vars

NextLemma == add_premise \/ add_conclusion

SpecLemma == Init /\ [][NextLemma]_vars

NextIdentifier == PickConverter \/ TranslateIdentifier

SpecIdentifier == Init /\ [][NextIdentifier]_vars

(***************************************************************************)
(* Properties of validate(), checked under Spec.                           *)
(***************************************************************************)

\* How often validate() has called LemmaChecker::check in this call.
OracleCalls == Cardinality({i \in DOMAIN trace : trace[i] = "check"})

Called(what) == \E i \in DOMAIN trace : trace[i] = what

\* Both converter.convert calls of this call have returned Ok.
Translated == pc \in {"vars", "check"} \/ (pc = "done" /\ Called("convert(model)") /\
                 ~(trace[Len(trace)] = "convert(model)" /\ outcome.r \in {"err", "panic"}))

\* C1: whenever used - defined is non-empty after formula and model have
\* been translated, validate() returns Invalid and LemmaChecker::check is
\* not called in that call.
C1_UndefinedVarsInvalidNoOracle ==
    (Translated /\ converter[1].vars_used \ converter[1].vars_defined # {}) =>
        /\ pc \in {"vars", "done"}
        /\ OracleCalls = 0 /\ proc = None /\ checked = None
        /\ pc = "done" => outcome = Returned("Invalid")

C1_Witness ==
    /\ pc = "done" /\ Translated
    /\ converter[1].vars_used \ converter[1].vars_defined # {}
    /\ outcome = Returned("Invalid") /\ OracleCalls = 0

\* The free identifiers of a term, read off the AST: the identifiers in
\* argument position whose name has no entry in any namespace of the table.
RECURSIVE FreeIdentifiers(_)
FreeIdentifiers(t) ==
    IF t.k = "QualIdentifier"
    THEN IF \E ns \in DOMAIN SpecTable : t.qi.sym \in DOMAIN SpecTable[ns] THEN {} ELSE {t.qi.sym}
    ELSE UNION {FreeIdentifiers(t.a[i]) : i \in DOMAIN t.a}

CommandsOf(text) == parse(replace25(text)).cmds

FreeIdentifiersOf(cmds, kinds) ==
    UNION {FreeIdentifiers(cmds[i].term) : i \in {j \in DOMAIN cmds : cmds[j].k \in kinds}}

DefinedNamesOf(cmds) == {cmds[i].name : i \in {j \in DOMAIN cmds : cmds[j].k = "DefineFun"}}

\* C2 as claimed: used - defined is empty whenever every free identifier of
\* the formula is a define-fun name of the model.
C2_AsClaimed ==
    (Translated /\ FreeIdentifiersOf(CommandsOf(smt_formula), {"Assert", "DefineFun"})
                        \subseteq DefinedNamesOf(CommandsOf(smt_model))) =>
        converter[1].vars_used \ converter[1].vars_defined = {}

\* Every free identifier of the formula and of the bodies of the model's
\* define-funs is a define-fun name of the model.
C2_AllDefined ==
    (FreeIdentifiersOf(CommandsOf(smt_formula), {"Assert", "DefineFun"})
        \cup FreeIdentifiersOf(CommandsOf(smt_model), {"Assert", "DefineFun"}))
            \subseteq DefinedNamesOf(CommandsOf(smt_model))

\* C2 (amended): used - defined is empty whenever every free identifier of
\* the formula and of the model's define-fun bodies is a define-fun name of
\* the model; such a pair is not rejected by the pre-check and reaches
\* LemmaChecker::check.
C2_UsedMinusDefinedEmpty ==
    (Translated /\ C2_AllDefined) =>
        /\ converter[1].vars_used \ converter[1].vars_defined = {}
        /\ pc = "done" => OracleCalls = 1

C2_Witness ==
    /\ pc = "done" /\ Translated /\ C2_AllDefined
    /\ converter[1].vars_used # {}
    /\ OracleCalls = 1

\* The raw solver output is the unsatisfiable marker.
RawIsUnsat == starts_with(trim(smt_model), <<"unsat">>)

\* C3 as claimed: when the raw solver output is unsat, validate() translates
\* neither formula nor model and never calls the oracle.
C3_UnsatShortCircuits ==
    RawIsUnsat => ~Called("convert(formula)") /\ ~Called("convert(model)") /\ OracleCalls = 0

\* C4: validate() maps the checker's verdict one to one; Valid is returned
\* only after exactly one check that ended OK on a successful run, Invalid
\* only by the variable pre-check without any check or after one check
\* that ended FailedInvalid, Unknown only after one check that ended
\* FailedUnknown.
C4_VerdictMapping ==
    pc = "done" =>
        /\ (checked # None /\ checked[1].r = "ok") =>
              /\ checked[1].res = "OK" => outcome = Returned("Valid")
              /\ checked[1].res = "FailedUnknown" => outcome = Returned("Unknown")
              /\ checked[1].res = "FailedInvalid" => outcome = Returned("Invalid")
        /\ outcome.v = "Valid" =>
              OracleCalls = 1 /\ checked = Some(CheckOk("OK")) /\ proc[1].success
        /\ outcome.v = "Unknown" =>
              OracleCalls = 1 /\ checked = Some(CheckOk("FailedUnknown"))
        /\ outcome.v = "Invalid" =>
              \/ /\ OracleCalls = 0 /\ checked = None
                 /\ converter[1].vars_used \ converter[1].vars_defined # {}
              \/ OracleCalls = 1 /\ checked = Some(CheckOk("FailedInvalid"))

C4_Witness ==
    pc = "done" /\ outcome = Returned("Invalid") /\ OracleCalls = 1

\* Whether translating a text fails, by a converter of its own.
TranslationFails(text) ==
    converter # None /\ convert(Converter(SpecTable, converter[1].order), text).r # "ok"

\* validate() has got as far as loading the spec and one of the three steps fails.
C5_SomeStepFails == spec_file # "ok" \/ TranslationFails(smt_formula) \/ TranslationFails(smt_model)

\* C5: a failure to load the spec or to translate formula or model is
\* returned by validate() to its caller as an Err.
C5_AsClaimed ==
    (pc = "done" /\ Called("from_spec_file") /\ C5_SomeStepFails) => outcome.r = "err"

\* C6: a batch run whose process ran and whose output is text is classified
\* by exit status and stdout alone: success gives OK whatever the text;
\* otherwise both markers give FailedInvalid, the marker alone gives
\* FailedUnknown, and no marker gives Err(IsabelleError).
C6_BatchClassification ==
    (proc # None /\ proc[1].spawn /\ proc[1].decodes) =>
        LET p == proc[1] IN
        /\ p.success => checked = Some(CheckOk("OK"))
        /\ (~p.success /\ p.marker /\ p.sub) => checked = Some(CheckOk("FailedInvalid"))
        /\ (~p.success /\ p.marker /\ ~p.sub) => checked = Some(CheckOk("FailedUnknown"))
        /\ (~p.success /\ ~p.marker) => checked = Some(CheckErr("IsabelleError"))

C6_Witness ==
    /\ proc # None /\ proc[1].decodes /\ ~proc[1].success /\ ~proc[1].marker /\ proc[1].sub
    /\ checked = Some(CheckErr("IsabelleError"))

(***************************************************************************)
(* Properties of ClientChecker, checked under SpecClient.                  *)
(***************************************************************************)

\* C7 as claimed: an error response of the server is reported as an error
\* and never returned as the verdict FailedUnknown.
C7_ErrorResponseIsError ==
    \A i \in DOMAIN returned :
        returned[i].on = "error" => returned[i].ret.r = "err" /\ returned[i].ret # CheckOk("FailedUnknown")

PurgeOf(i) ==
    /\ i < Len(wire)
    /\ wire[i + 1].req = "purge_theories"
    /\ wire[i + 1].session = wire[i].session
    /\ wire[i + 1].path = wire[i].path

\* C8: whenever no check() is in flight, every use_theories
\* request made has been followed by a purge_theories request for the same
\* theory path, whatever its outcome, a transport failure included.
C8_AsClaimed ==
    cpc # "purging" => \A i \in Uses : PurgeOf(i)

\* C9: a ClientChecker exists only after a session start that finished;
\* nothing is submitted on a session whose start failed; and after a failed
\* purge nothing more is ever sent.
C9_FailedSessionIsTerminal ==
    /\ cpc \in {"ready", "purging"} =>
          /\ session_id # "" /\ temp_dir # ""
          /\ \E i \in DOMAIN wire :
                /\ wire[i] = Exchange("session_start", "", "", "finished")
                /\ \A j \in i + 1..Len(wire) : wire[j].req # "session_start" /\ wire[j].session = session_id
    /\ \A i \in DOMAIN wire :
          (wire[i].req = "session_start" /\ wire[i].resp # "finished") =>
              IF i = Len(wire) THEN cpc \in {"start_failed", "panicked"}
              ELSE wire[i + 1].req = "session_start"
    /\ \A i \in DOMAIN wire :
          (wire[i].req = "purge_theories" /\ wire[i].resp = "io_err") =>
              i = Len(wire) /\ cpc = "panicked"

C9_Witness ==
    /\ cpc = "panicked"
    /\ wire[1] = Exchange("session_start", "", "", "io_err")
    /\ wire[Len(wire)].req = "purge_theories" /\ wire[Len(wire)].resp = "io_err"

(***************************************************************************)
(* Properties of the translation of an application, checked under          *)
(* SpecConvert.                                                            *)
(***************************************************************************)

DeclaredLeftAssoc(op) ==
    \E ns \in DOMAIN t_conv.spec : op \in DOMAIN t_conv.spec[ns] /\ t_conv.spec[ns][op].assoc = Some("left")

\* C10: for a left-associative operator and three or more arguments, the
\* translation of the n-ary application and the translation of its
\* left-deep binary expansion give the same result, the same text and the
\* same set of used variables.
C10_NaryEqualsLeftFold ==
    (tpc = "done" /\ DeclaredLeftAssoc(t_op) /\ Len(t_args) >= 3) =>
        /\ t_nary.r = t_fold.r
        /\ t_nary.text = t_fold.text
        /\ t_nary.err = t_fold.err
        /\ t_nary.c.vars_used = t_fold.c.vars_used

C10_Witness ==
    /\ tpc = "done" /\ DeclaredLeftAssoc(t_op) /\ Len(t_args) = 4
    /\ t_nary.r = "ok" /\ t_nary.c.vars_used = {"x", "y", "u", "v"}
    /\ t_nary.text = t_fold.text

DeclaredRightAssoc(op) ==
    \E ns \in DOMAIN t_conv.spec : op \in DOMAIN t_conv.spec[ns] /\ t_conv.spec[ns][op].assoc = Some("right")

\* C11: the translation of an application of a right-associative operator
\* to more than two arguments fails: it is not Ok, it gives no text, and in
\* particular it does not give the text of the left-deep expansion.
C11_RightAssocNaryFails ==
    (tpc \in {"nary", "done"} /\ DeclaredRightAssoc(t_op) /\ Len(t_args) > 2) =>
        /\ t_nary.r # "ok"
        /\ t_nary.text = ""
        /\ (tpc = "done" /\ t_fold.r = "ok") => t_nary.text # t_fold.text

C11_Witness ==
    /\ tpc = "done" /\ DeclaredRightAssoc(t_op) /\ Len(t_args) = 3
    /\ t_nary.r = "panic" /\ t_fold.r = "ok" /\ t_fold.text # ""

\* Whether an operator name has an entry in some namespace of a converter's
\* table, and whether it has one without a target name.
HasEntry(c, op) == \E ns \in DOMAIN c.spec : op \in DOMAIN c.spec[ns]

HasEntryWithoutTarget(c, op) ==
    \E ns \in DOMAIN c.spec : op \in DOMAIN c.spec[ns] /\ c.spec[ns][op].mapsto = None

\* C13: an application whose head operator has no entry in the table fails
\* with an error, and that error differs from the error the same
\* application gives under any loaded table in which the operator has an
\* entry without a target name.
C13_UnknownDistinctFromUnsupported ==
    (tpc \in {"nary", "done"} /\ ~HasEntry(t_conv, t_op)) =>
        /\ t_nary.r = "err"
        /\ \A c2 \in LoadedConverters :
              HasEntryWithoutTarget(c2, t_op) =>
                  LET other == convert_term(c2, Application(Simple(t_op), t_args)) IN
                  other.r = "err" => other.err # t_nary.err

\* C17: however the namespaces of the loaded table are iterated, the head
\* operator resolves to the same spec and the application translates to
\* the same result.
C17_LookupOrderIndependent ==
    tpc \in {"nary", "done"} =>
        \A c2 \in LoadedConverters :
            c2.spec = t_conv.spec =>
                /\ (get_spec(c2, t_op) # None) = (get_spec(t_conv, t_op) # None)
                /\ get_spec(t_conv, t_op) # None => get_spec(c2, t_op)[1][2] = get_spec(t_conv, t_op)[1][2]
                /\ convert_term(c2, Application(Simple(t_op), t_args)).r = t_nary.r
                /\ convert_term(c2, Application(Simple(t_op), t_args)).text = t_nary.text

(***************************************************************************)
(* Properties of string constants, checked under SpecUnescape.             *)
(***************************************************************************)

\* The decimal code points of a string, separated by single commas.
RECURSIVE CodePointList(_)
CodePointList(str) ==
    IF str = <<>> THEN ""
    ELSE IF Len(str) = 1 THEN ToString(str[1])
    ELSE ToString(str[1]) \o "," \o CodePointList(Tail(str))

\* C14: a string constant whose literal unescapes to a string renders as
\* the bracketed list of the decimal code points of that string, one per
\* character, in order, with a comma between two of them and nowhere else.
C14_StringRendersCodePoints ==
    (upc = "done" /\ unicode_unescape(u_s, TRUE).r = "ok") =>
        /\ u_const.r = "ok"
        /\ u_const.text = "[" \o CodePointList(unicode_unescape(u_s, TRUE).chars) \o "]"

AllHex(str) == \A i \in DOMAIN str : HexDigit(str[i]) >= 0

\* Whether a literal holds a malformed escape sequence, read from the left:
\* a backslash at the end; \u at the end; \u{ with no closing brace, with
\* nothing between the braces, or with a character between them that is no
\* hexadecimal digit; \u followed by fewer than four characters or by four
\* that are not all hexadecimal digits; in legacy mode, \x followed by
\* fewer than two characters or by two that are not both hexadecimal digits.
RECURSIVE MalformedFrom(_, _, _)
MalformedFrom(s, i, legacy) ==
    IF i > Len(s) THEN FALSE
    ELSE IF s[i] # Backslash THEN MalformedFrom(s, i + 1, legacy)
    ELSE IF i + 1 > Len(s) THEN TRUE
    ELSE IF s[i + 1] = LowerU
    THEN IF i + 2 > Len(s) THEN TRUE
         ELSE IF s[i + 2] = OpenBrace
         THEN LET close == CHOOSE j \in i + 3..Len(s) + 1 :
                              /\ j <= Len(s) => s[j] = CloseBrace
                              /\ \A k \in i + 3..j - 1 : s[k] # CloseBrace IN
              \/ close > Len(s)
              \/ close = i + 3
              \/ ~AllHex(SubSeq(s, i + 3, close - 1))
              \/ MalformedFrom(s, close + 1, legacy)
         ELSE \/ i + 5 > Len(s)
              \/ ~AllHex(SubSeq(s, i + 2, i + 5))
              \/ MalformedFrom(s, i + 6, legacy)
    ELSE IF s[i + 1] = LowerX /\ legacy
    THEN \/ i + 3 > Len(s)
         \/ ~AllHex(SubSeq(s, i + 2, i + 3))
         \/ MalformedFrom(s, i + 4, legacy)
    ELSE MalformedFrom(s, i + 2, legacy)

\* C15: unicode_unescape does not return Ok for a literal that holds a
\* malformed escape sequence.
C15_MalformedEscapeFails ==
    (upc \in {"unescaped", "done"} /\ MalformedFrom(u_s, 1, u_legacy)) => u_res.r # "ok"

\* Whether every backslash of a literal begins a two-digit escape \xHH.
RECURSIVE OnlyLegacyEscapes(_, _)
OnlyLegacyEscapes(s, i) ==
    IF i > Len(s) THEN TRUE
    ELSE IF s[i] # Backslash THEN OnlyLegacyEscapes(s, i + 1)
    ELSE /\ i + 3 <= Len(s)
         /\ s[i + 1] = LowerX
         /\ AllHex(SubSeq(s, i + 2, i + 3))
         /\ OnlyLegacyEscapes(s, i + 4)

\* Such a literal with every \xHH replaced by the character with code HH.
RECURSIVE DecodeLegacy(_, _)
DecodeLegacy(s, i) ==
    IF i > Len(s) THEN <<>>
    ELSE IF s[i] # Backslash THEN <<s[i]>> \o DecodeLegacy(s, i + 1)
    ELSE <<HexDigit(s[i + 2]) * 16 + HexDigit(s[i + 3])>> \o DecodeLegacy(s, i + 4)

\* C18: for a literal whose escapes are all of the form \xHH, with legacy
\* mode off unicode_unescape either fails or returns the literal unchanged,
\* backslash, x and digits included; with legacy mode on it returns the
\* literal with each escape decoded.
C18_LegacyEscapeConsistent ==
    (upc \in {"unescaped", "done"} /\ Backslash \in {u_s[i] : i \in DOMAIN u_s} /\ OnlyLegacyEscapes(u_s, 1)) =>
        IF u_legacy
        THEN u_res = UOk(DecodeLegacy(u_s, 1))
        ELSE u_res.r # "ok" \/ u_res.chars = u_s

(***************************************************************************)
(* Properties of Converter::convert inside validate(), checked under Spec. *)
(***************************************************************************)

\* Whether a term is or contains a Let, Forall, Exists, Match or attributed term.
RECURSIVE ContainsUnsupportedConstruct(_)
ContainsUnsupportedConstruct(t) ==
    \/ t.k \in {"Let", "Forall", "Exists", "Match", "Attributes"}
    \/ \E i \in DOMAIN t.a : ContainsUnsupportedConstruct(t.a[i])

HasUnsupportedConstruct(text) ==
    \E i \in DOMAIN CommandsOf(text) :
        /\ CommandsOf(text)[i].k \in {"Assert", "DefineFun"}
        /\ ContainsUnsupportedConstruct(CommandsOf(text)[i].term)

\* C12: when the text handed to convert() holds a Let, Forall, Exists,
\* Match or attributed term, in an assertion or in a define-fun body,
\* convert() returns an Err to validate(), which hands it on.
C12_UnsupportedConstructIsError ==
    /\ (pc = "done" /\ trace[Len(trace)] = "convert(formula)" /\ HasUnsupportedConstruct(smt_formula))
          => outcome.r = "err"
    /\ (pc = "done" /\ trace[Len(trace)] = "convert(model)" /\ HasUnsupportedConstruct(smt_model))
          => outcome.r = "err"

\* C19: no call of convert() takes an element out of vars_used or
\* vars_defined, whether it succeeds or fails; and once formula and model
\* are both translated the two sets hold every free identifier and every
\* define-fun name of the two texts.
C19_SetsOnlyGrow ==
    /\ [][(converter # None /\ converter' # None) =>
            /\ get_vars_used(converter[1]) \subseteq get_vars_used(converter'[1])
            /\ get_vars_defined(converter[1]) \subseteq get_vars_defined(converter'[1])]_vars
    /\ [](Translated =>
            /\ FreeIdentifiersOf(CommandsOf(smt_formula), {"Assert", "DefineFun"})
                    \cup FreeIdentifiersOf(CommandsOf(smt_model), {"Assert", "DefineFun"})
                  \subseteq converter[1].vars_used
            /\ DefinedNamesOf(CommandsOf(smt_formula)) \cup DefinedNamesOf(CommandsOf(smt_model))
                  \subseteq converter[1].vars_defined)

C19_Witness ==
    /\ pc = "done" /\ Translated
    /\ formula # <<>> /\ Len(model) = 2
    /\ converter[1].vars_used = {"x", "y"}
    /\ converter[1].vars_defined = {"x", "y"}

(***************************************************************************)
(* Properties of Lemma, checked under SpecLemma.                           *)
(***************************************************************************)

IsConclusionCall(call) == call.fn = "add_conclusion"

IsPremiseCall(call) == call.fn = "add_premise"

TextsOf(cs) == [i \in DOMAIN cs |-> cs[i].text]

\* The hints a set of conclusions determines, on top of the baseline.
HintsFor(added) ==
    {"assms", "eval_nat_numeral"}
        \cup (IF \E c \in added : contains(c, "str_substr") THEN {"fac_def"} ELSE {})
        \cup (IF \E c \in added : contains(c, "str_prefixof") \/ contains(c, "str_suffixof")
              THEN {"is_prefix_def", "is_suffix_def"} ELSE {})

\* C16: after any sequence of add_premise and add_conclusion calls the
\* hint set is the baseline plus the hints of the set of conclusions added,
\* whatever the order of the calls; the conclusions are those handed to
\* add_conclusion and the premises those handed to add_premise, so
\* add_premise changes neither hints nor conclusions.
C16_HintsFromConclusions ==
    /\ simps = HintsFor({calls[i].text : i \in {j \in DOMAIN calls : IsConclusionCall(calls[j])}})
    /\ conclusions = TextsOf(SelectSeq(calls, IsConclusionCall))
    /\ premises = TextsOf(SelectSeq(calls, IsPremiseCall))

C16_Witness ==
    /\ Len(calls) = 3
    /\ \E i \in DOMAIN calls : IsPremiseCall(calls[i]) /\ contains(calls[i].text, "str_substr")
    /\ calls[3].fn = "add_premise" /\ calls[1].fn = "add_conclusion"
    /\ contains(calls[1].text, "str_prefixof")
    /\ simps = {"assms", "eval_nat_numeral", "is_prefix_def", "is_suffix_def"}

(***************************************************************************)
(* Properties of convert_identifier, checked under SpecIdentifier.         *)
(***************************************************************************)

\* The target names the entries of an operator name have in a table.
Targets(c, op) == {c.spec[ns][op].mapsto : ns \in {n \in DOMAIN c.spec : op \in DOMAIN c.spec[n]}}

\* C20: the translation of an identifier with a name, sort-annotated or
\* not, has one of three outcomes, by the name alone: with an entry that
\* has a target it gives the target and leaves vars_used alone; with an
\* entry without target it fails as unsupported and leaves vars_used
\* alone; with no entry it gives the name and adds it to vars_used.
C20_IdentifierThreeOutcomes ==
    (ipc = "translated" /\ ~i_qi.indexed) =>
        /\ i_conv.spec = i_before.spec /\ i_conv.vars_defined = i_before.vars_defined
        /\ IF ~HasEntry(i_before, i_qi.sym)
           THEN /\ i_res = Seen(Ok(i_before, i_qi.sym))
                /\ i_conv.vars_used = i_before.vars_used \cup {i_qi.sym}
           ELSE IF HasEntryWithoutTarget(i_before, i_qi.sym)
           THEN /\ i_res = Seen(Err(i_before, Unsupported(i_qi.sym)))
                /\ i_conv.vars_used = i_before.vars_used
           ELSE /\ i_res.r = "ok" /\ Some(i_res.text) \in Targets(i_before, i_qi.sym)
                /\ i_conv.vars_used = i_before.vars_used

C20_Witness ==
    /\ ipc = "translated" /\ i_qi = Sorted("true")
    /\ i_res.text = "True"
    /\ i_before.vars_used = {"x", "y"} /\ i_conv.vars_used = {"x", "y"}

====
